---- MODULE Spec2Model ----
(***************************************************************************)
(* Model of ultrafast-gltf-importer.py: the cache build (build_cache and   *)
(* preprocess_gltf_file) as a state machine over a directory of documents, *)
(* and parse_transform as a pure function applied to bounded inputs.       *)
(*                                                                         *)
(* Python values are modelled as follows.  A JSON object (dict) is a       *)
(* function whose DOMAIN is the set of keys present; a JSON array (list)   *)
(* is a sequence, Python index i being TLA+ index i+1.  A Python exception *)
(* raised while evaluating an expression is the value Exc; a normal value  *)
(* v is Ok(v).  A file name is a sequence of one-character strings.  A     *)
(* float32 read from the buffer is the tuple of its four bytes (its        *)
(* IEEE-754 bit pattern); it is never interpreted.                         *)
(***************************************************************************)
EXTENDS Integers, Sequences, FiniteSets, TLC

VARIABLES
    files,          \* GLTF_FOLDER on disk: file name -> content
    tex_exists,     \* the texture candidate paths p for which p.exists()
    pc,             \* position of build_cache
    gltf_files,     \* build_cache: the sorted list of *.gltf paths
    i,              \* build_cache: loop index
    cache_data,     \* build_cache: the list being collected
    cache_file,     \* content of CACHE_FILE on disk (pickle.dump)
    t,              \* parse_transform: the argument
    tpc,            \* parse_transform: position
    matrix_world    \* parse_transform: the returned matrix

vars == <<files, tex_exists, pc, gltf_files, i, cache_data, cache_file,
          t, tpc, matrix_world>>

build_vars == <<files, tex_exists, pc, gltf_files, i, cache_data, cache_file>>
transform_vars == <<t, tpc, matrix_world>>

\* -------------------------------------------------------------------------
\* Bounds of the model
\* -------------------------------------------------------------------------
MaxFiles == 3       \* documents in the folder of a batch run
MaxCount == 4       \* vertex count of a generated primitive
MaxIdxCount == 3    \* length of a generated index sequence
MaxIndexVal == 2    \* largest value in a generated index sequence
MaxCoord == 1       \* largest component of a generated translation
MaxScale == 2       \* largest component of a generated scale

\* -------------------------------------------------------------------------
\* Python values
\* -------------------------------------------------------------------------
Exc == [exc |-> TRUE]
Ok(v) == [exc |-> FALSE, val |-> v]

EmptyDict == <<>>
Has(d, k) == k \in DOMAIN d
\* d[k]: KeyError when the key is absent
DictGet(d, k) == IF Has(d, k) THEN Ok(d[k]) ELSE Exc
\* d.get(k, default)
Get(d, k, default) == IF Has(d, k) THEN d[k] ELSE default
\* l[idx]: IndexError past either end, negative indices count from the end
ListGet(l, idx) ==
    IF idx >= 0 /\ idx < Len(l) THEN Ok(l[idx + 1])
    ELSE IF idx < 0 /\ -idx <= Len(l) THEN Ok(l[Len(l) + idx + 1])
    ELSE Exc

None == [kind |-> "None"]
NoPath == [isNone |-> TRUE]
SomePath(p) == [isNone |-> FALSE, path |-> p]

\* -------------------------------------------------------------------------
\* File names and paths
\* -------------------------------------------------------------------------
Ord ==
    ("-" :> 45) @@ ("." :> 46) @@ ("a" :> 97) @@ ("b" :> 98) @@ ("f" :> 102)
    @@ ("g" :> 103) @@ ("i" :> 105) @@ ("l" :> 108) @@ ("n" :> 110)
    @@ ("t" :> 116) @@ ("x" :> 120)

\* Python's str < str: lexicographic by code point, a proper prefix is smaller
StrLess(a, b) ==
    \E k \in 1..(Len(b)) :
        /\ \A j \in 1..(k - 1) : j <= Len(a) /\ a[j] = b[j]
        /\ \/ k = Len(a) + 1
           \/ k <= Len(a) /\ Ord[a[k]] < Ord[b[k]]

GltfSuffix == <<".", "g", "l", "t", "f">>

EndsWith(name, suffix) ==
    /\ Len(name) >= Len(suffix)
    /\ SubSeq(name, Len(name) - Len(suffix) + 1, Len(name)) = suffix

\* Path(gltf_folder).glob("*.gltf")
Glob(listing) == {name \in listing : EndsWith(name, GltfSuffix)}

\* Path.stem: the name without its last suffix
Stem(name) ==
    LET dots == {k \in 2..(Len(name) - 1) : name[k] = "."}
    IN  IF dots = {} THEN name
        ELSE SubSeq(name, 1, (CHOOSE k \in dots : \A m \in dots : m <= k) - 1)

\* the listing in descending order, as a wrong sort would leave it
RECURSIVE sorted_descending(_)
sorted_descending(S) ==
    IF S = {} THEN <<>>
    ELSE LET greatest == CHOOSE a \in S : \A b \in S \ {a} : StrLess(b, a)
         IN  <<greatest>> \o sorted_descending(S \ {greatest})

\* sorted(...) of a set of strings
RECURSIVE sorted(_)
sorted(S) ==
    IF S = {} THEN <<>>
    ELSE LET least == CHOOSE a \in S : \A b \in S \ {a} : StrLess(a, b)
         IN  <<least>> \o sorted(S \ {least})

\* pathlib's a / b for a relative b, paths being sequences of components
Join(base, rel) == base \o rel
TEXTURE_FOLDER == <<"TEXTURE_FOLDER">>
GLTF_FOLDER == <<"GLTF_FOLDER">>
\* Path(uri).name
PathName(uri) == IF uri = <<>> THEN <<>> ELSE <<uri[Len(uri)]>>

\* -------------------------------------------------------------------------
\* preprocess_gltf_file
\* -------------------------------------------------------------------------
\* the first buffer with a uri whose file exists; None when there is none
RECURSIVE LoadBin(_, _)
LoadBin(buffers, k) ==
    IF k > Len(buffers) THEN <<>>
    ELSE IF Has(buffers[k], "uri") /\ buffers[k].uri \in DOMAIN files
         THEN files[buffers[k].uri].bytes
         ELSE LoadBin(buffers, k + 1)

\* struct.unpack of n little-endian float32 at byte offset off
F32(bin_data, off) ==
    <<bin_data[off + 1], bin_data[off + 2], bin_data[off + 3], bin_data[off + 4]>>

UnpackFloats(bin_data, off, n) ==
    IF off + 4 * n > Len(bin_data) THEN Exc
    ELSE Ok([c \in 1..n |-> F32(bin_data, off + 4 * (c - 1))])

\* struct.unpack('<H') / struct.unpack('<I')
UnpackUInt(bin_data, off, width) ==
    IF off + width > Len(bin_data) THEN Exc
    ELSE IF width = 2
         THEN Ok(bin_data[off + 1] + 256 * bin_data[off + 2])
         ELSE Ok(bin_data[off + 1] + 256 * bin_data[off + 2]
                 + 65536 * bin_data[off + 3] + 16777216 * bin_data[off + 4])

\* F applied to the value of e (e is evaluated once, as a Python local is)
With(e, F(_)) == CHOOSE r \in {F(v) : v \in {e}} : TRUE

\* accessor and bufferView of an attribute: offset and stride
AccessorView(gltf_data, acc_idx, default_stride) ==
    IF ~Has(gltf_data, "accessors") THEN Exc
    ELSE With(ListGet(gltf_data.accessors, acc_idx), LAMBDA acc :
    IF acc.exc \/ ~Has(gltf_data, "bufferViews") THEN Exc
    ELSE IF ~Has(acc.val, "bufferView") THEN Exc
    ELSE With(ListGet(gltf_data.bufferViews, acc.val.bufferView), LAMBDA view :
    IF view.exc THEN Exc
    ELSE Ok([acc |-> acc.val,
             offset |-> Get(view.val, "byteOffset", 0)
                        + Get(acc.val, "byteOffset", 0),
             stride |-> Get(view.val, "byteStride", default_stride)])))

\* count elements of n floats each, at offset + i * stride
DecodeVecs(bin_data, offset, stride, count, n) ==
    IF \E k \in 1..count : offset + (k - 1) * stride + 4 * n > Len(bin_data)
    THEN Exc
    ELSE Ok([k \in 1..count |->
                UnpackFloats(bin_data, offset + (k - 1) * stride, n).val])

\* A. Extract Positions
ExtractPositions(gltf_data, bin_data, primitive) ==
    With(AccessorView(gltf_data, primitive.attributes.POSITION, 12), LAMBDA av :
    IF av.exc THEN Exc
    ELSE IF ~Has(av.val.acc, "count") THEN Exc
    ELSE DecodeVecs(bin_data, av.val.offset, av.val.stride, av.val.acc.count, 3))

\* B. Extract UVs (TEXCOORD_0): count is the POSITION accessor's
ExtractUVs(gltf_data, bin_data, primitive, count) ==
    IF ~Has(primitive.attributes, "TEXCOORD_0") THEN Ok(<<>>)
    ELSE With(AccessorView(gltf_data, primitive.attributes.TEXCOORD_0, 8), LAMBDA av :
         IF av.exc THEN Exc
         ELSE DecodeVecs(bin_data, av.val.offset, av.val.stride, count, 2))

\* the loop of struct.unpack over idx_count elements of width bytes
DecodeUInts(bin_data, offset, idx_count, width) ==
    IF \E k \in 1..idx_count : offset + (k - 1) * width + width > Len(bin_data)
    THEN Exc
    ELSE Ok([k \in 1..idx_count |->
                UnpackUInt(bin_data, offset + (k - 1) * width, width).val])

\* C. Extract Indices
ExtractIndices(gltf_data, bin_data, primitive) ==
    IF ~Has(primitive, "indices") THEN Ok(<<>>)
    ELSE With(AccessorView(gltf_data, primitive.indices, 0), LAMBDA av :
         IF av.exc THEN Exc
         ELSE IF ~Has(av.val.acc, "count") \/ ~Has(av.val.acc, "componentType") THEN Exc
         ELSE IF av.val.acc.componentType = 5123
              THEN DecodeUInts(bin_data, av.val.offset, av.val.acc.count, 2)
         ELSE IF av.val.acc.componentType = 5125
              THEN DecodeUInts(bin_data, av.val.offset, av.val.acc.count, 4)
         ELSE Ok(<<>>))

\* faces: range(0, len, 3) visits ceil(len / 3) starting points
BuildFaces(indices, positions) ==
    IF indices # <<>>
    THEN IF 3 * ((Len(indices) + 2) \div 3) > Len(indices) THEN Exc
         ELSE Ok([k \in 1..((Len(indices) + 2) \div 3) |->
                    <<indices[3 * k - 2], indices[3 * k - 1], indices[3 * k]>>])
    ELSE Ok([k \in 1..((Len(positions) + 2) \div 3) |->
                <<3 * (k - 1), 3 * (k - 1) + 1, 3 * (k - 1) + 2>>])

\* the existence checks tried in the order the candidates are computed
ResolveTextureLocalFirst(uri, parent) ==
    LET check_local == Join(parent, uri)
        check_tex_folder == Join(TEXTURE_FOLDER, uri)
        check_flat == Join(TEXTURE_FOLDER, PathName(uri))
    IN  IF check_local \in tex_exists THEN SomePath(check_local)
        ELSE IF check_tex_folder \in tex_exists THEN SomePath(check_tex_folder)
        ELSE IF check_flat \in tex_exists THEN SomePath(check_flat)
        ELSE NoPath

\* the existence checks on the three candidate paths of uri
ResolveTexture(uri, parent) ==
    LET check_local == Join(parent, uri)
        check_tex_folder == Join(TEXTURE_FOLDER, uri)
        check_flat == Join(TEXTURE_FOLDER, PathName(uri))
    IN  IF check_tex_folder \in tex_exists THEN SomePath(check_tex_folder)
        ELSE IF check_flat \in tex_exists THEN SomePath(check_flat)
        ELSE IF check_local \in tex_exists THEN SomePath(check_local)
        ELSE NoPath

\* D. Find Texture Path
FindTexturePath(gltf_data, primitive, parent) ==
    IF ~Has(primitive, "material") THEN Ok(NoPath)
    ELSE
    With(ListGet(Get(gltf_data, "materials", <<>>), primitive.material), LAMBDA mat :
    IF ~(primitive.material < Len(Get(gltf_data, "materials", <<>>))) THEN Ok(NoPath)
    ELSE IF mat.exc THEN Exc
    ELSE IF ~Has(Get(mat.val, "pbrMetallicRoughness", EmptyDict), "baseColorTexture")
         THEN Ok(NoPath)
    ELSE IF ~Has(mat.val.pbrMetallicRoughness.baseColorTexture, "index") THEN Exc
    ELSE
    With(mat.val.pbrMetallicRoughness.baseColorTexture.index, LAMBDA tex_idx :
    With(ListGet(Get(gltf_data, "textures", <<>>), tex_idx), LAMBDA tex :
    IF ~(tex_idx < Len(Get(gltf_data, "textures", <<>>))) THEN Ok(NoPath)
    ELSE IF tex.exc THEN Exc
    ELSE IF ~Has(tex.val, "source") THEN Exc
    ELSE
    With(ListGet(Get(gltf_data, "images", <<>>), tex.val.source), LAMBDA img :
    IF ~(tex.val.source < Len(Get(gltf_data, "images", <<>>))) THEN Ok(NoPath)
    ELSE IF img.exc THEN Exc
    ELSE IF ~Has(img.val, "uri") THEN Exc
    ELSE Ok(ResolveTexture(img.val.uri, parent))))))

\* 1. Get Node Transforms: the transform of the last node naming mesh_idx
NodeTransform(gltf_data, mesh_idx) ==
    LET nodes == Get(gltf_data, "nodes", <<>>)
        hits == {k \in 1..Len(nodes) :
                    Has(nodes[k], "mesh") /\ nodes[k].mesh = mesh_idx}
        last == CHOOSE k \in hits : \A m \in hits : m <= k
        keys == DOMAIN nodes[last]
                \cap {"matrix", "translation", "rotation", "scale"}
    IN  IF hits = {} THEN EmptyDict
        ELSE [k \in keys |-> nodes[last][k]]

Skipped == [skip |-> TRUE]

\* the body of the loop over a mesh's primitives, for one primitive
ProcessPrimitive(gltf_data, bin_data, primitive, mesh_idx, parent) ==
    IF ~Has(primitive, "attributes") THEN Exc
    ELSE IF ~Has(primitive.attributes, "POSITION") THEN Ok(Skipped)
    ELSE
    With(ExtractPositions(gltf_data, bin_data, primitive), LAMBDA positions :
    IF positions.exc THEN Exc
    ELSE
    With(ExtractUVs(gltf_data, bin_data, primitive, Len(positions.val)), LAMBDA uvs :
    IF uvs.exc THEN Exc
    ELSE
    With(ExtractIndices(gltf_data, bin_data, primitive), LAMBDA indices :
    IF indices.exc THEN Exc
    ELSE
    With(BuildFaces(indices.val, positions.val), LAMBDA faces :
    IF faces.exc THEN Exc
    ELSE
    With(FindTexturePath(gltf_data, primitive, parent), LAMBDA texture_path :
    IF texture_path.exc THEN Exc
    ELSE Ok([skip |-> FALSE,
             verts |-> positions.val,
             faces |-> faces.val,
             uvs |-> uvs.val,
             texture_path |-> texture_path.val,
             transform |-> NodeTransform(gltf_data, mesh_idx)]))))))

\* the records appended for primitives k.. of one mesh
RECURSIVE ProcessPrimitives(_, _, _, _, _, _)
ProcessPrimitives(gltf_data, bin_data, primitives, k, mesh_idx, parent) ==
    IF k > Len(primitives) THEN Ok(<<>>)
    ELSE
    With(ProcessPrimitive(gltf_data, bin_data, primitives[k], mesh_idx, parent), LAMBDA r :
    IF r.exc THEN Exc
    ELSE
    With(ProcessPrimitives(gltf_data, bin_data, primitives, k + 1, mesh_idx, parent),
         LAMBDA rest :
    IF rest.exc THEN Exc
    ELSE IF r.val.skip THEN rest
    ELSE Ok(<<[f \in DOMAIN r.val \ {"skip"} |-> r.val[f]]>> \o rest.val)))

\* 2. Process Meshes: the records appended for meshes k..
RECURSIVE ProcessMeshes(_, _, _, _)
ProcessMeshes(gltf_data, bin_data, k, parent) ==
    IF k > Len(gltf_data.meshes) THEN Ok(<<>>)
    ELSE IF ~Has(gltf_data.meshes[k], "primitives") THEN Exc
    ELSE
    With(ProcessPrimitives(gltf_data, bin_data, gltf_data.meshes[k].primitives, 1,
                           k - 1, parent), LAMBDA here :
    IF here.exc THEN Exc
    ELSE
    With(ProcessMeshes(gltf_data, bin_data, k + 1, parent), LAMBDA rest :
    IF rest.exc THEN Exc
    ELSE Ok(here.val \o rest.val)))

\* the statements of the try block after json.load, on the parsed document
\* and the loaded buffer
PreprocessLoaded(gltf_path, gltf_data, bin_data) ==
    IF bin_data = <<>> THEN Ok(None)                \* if not bin_data
    ELSE IF ~Has(gltf_data, "meshes") THEN Ok(None)
    ELSE With(ProcessMeshes(gltf_data, bin_data, 1, GLTF_FOLDER), LAMBDA meshes :
         IF meshes.exc THEN Exc
         ELSE Ok([kind |-> "dict",
                  name |-> Stem(gltf_path),
                  meshes |-> meshes.val]))

\* the try block: Exc when an exception escapes it, else its return value
PreprocessBody(gltf_path) ==
    IF ~files[gltf_path].valid THEN Exc             \* json.load raises
    ELSE
    With(files[gltf_path].data, LAMBDA gltf_data :
    With(IF Has(gltf_data, "buffers") THEN LoadBin(gltf_data.buffers, 1) ELSE <<>>,
         LAMBDA bin_data :
    PreprocessLoaded(gltf_path, gltf_data, bin_data)))

\* an except clause that lets the exception escape to the caller
ExceptReraise(r) == IF r.exc THEN [kind |-> "raise"] ELSE r.val

\* the except clause: print the error, return None
ExceptException(r) == IF r.exc THEN None ELSE r.val

preprocess_gltf_file(gltf_path) ==
    With(PreprocessBody(gltf_path), LAMBDA r : ExceptException(r))

\* -------------------------------------------------------------------------
\* build_cache
\* -------------------------------------------------------------------------
\* truth value of a returned object: None is false, a dict with keys is true
Truthy(data) == data.kind = "dict"

build_cache_start ==
    /\ pc = "start"
    /\ gltf_files' = sorted(Glob(DOMAIN files))
    /\ cache_data' = <<>>
    /\ i' = 0
    /\ pc' = "loop"
    /\ UNCHANGED <<files, tex_exists, cache_file>>
    /\ UNCHANGED transform_vars

build_cache_loop ==
    /\ pc = "loop"
    /\ i < Len(gltf_files)
    /\ \E data \in {preprocess_gltf_file(gltf_files[i + 1])} :
       IF data.kind = "raise"
       THEN /\ pc' = "raised"
            /\ UNCHANGED <<i, cache_data>>
       ELSE /\ cache_data' = IF Truthy(data) THEN Append(cache_data, data)
                             ELSE cache_data
            /\ i' = i + 1
            /\ pc' = "loop"
    /\ UNCHANGED <<files, tex_exists, gltf_files, cache_file>>
    /\ UNCHANGED transform_vars

build_cache_save ==
    /\ pc = "loop"
    /\ i = Len(gltf_files)
    /\ cache_file' = [exists |-> TRUE, data |-> cache_data]
    /\ pc' = "done"
    /\ UNCHANGED <<files, tex_exists, gltf_files, i, cache_data>>
    /\ UNCHANGED transform_vars

\* -------------------------------------------------------------------------
\* parse_transform
\* -------------------------------------------------------------------------
Identity4 ==
    <<<<1, 0, 0, 0>>, <<0, 1, 0, 0>>, <<0, 0, 1, 0>>, <<0, 0, 0, 1>>>>

\* mathutils' A @ B
MatMul(A, B) ==
    [r \in 1..4 |-> [c \in 1..4 |->
        A[r][1] * B[1][c] + A[r][2] * B[2][c] + A[r][3] * B[3][c] + A[r][4] * B[4][c]]]

\* Matrix.transposed()
Transposed(A) == [r \in 1..4 |-> [c \in 1..4 |-> A[c][r]]]

\* Matrix.Translation(Vector(v))
Translation(v) ==
    <<<<1, 0, 0, v[1]>>, <<0, 1, 0, v[2]>>, <<0, 0, 1, v[3]>>, <<0, 0, 0, 1>>>>

\* Quaternion((w, x, y, z)).to_matrix().to_4x4() of the unit quaternion whose
\* components are the given integers divided by the square root of
\* n2 = w*w + x*x + y*y + z*z (n2 is 1 or 2 for the rotations generated here,
\* which makes every entry of the matrix an integer)
QuaternionToMatrix(w, x, y, z) ==
    LET n2 == w * w + x * x + y * y + z * z
        e(v) == v \div n2
    IN  <<<<e(n2 - 2 * (y * y + z * z)), e(2 * (x * y - z * w)), e(2 * (x * z + y * w)), 0>>,
          <<e(2 * (x * y + z * w)), e(n2 - 2 * (x * x + z * z)), e(2 * (y * z - x * w)), 0>>,
          <<e(2 * (x * z - y * w)), e(2 * (y * z + x * w)), e(n2 - 2 * (x * x + y * y)), 0>>,
          <<0, 0, 0, 1>>>>

\* Matrix.Identity(4) with s on the diagonal
ScaleMatrix(s) ==
    <<<<s[1], 0, 0, 0>>, <<0, s[2], 0, 0>>, <<0, 0, s[3], 0>>, <<0, 0, 0, 1>>>>

parse_transform(tr) ==
    IF Has(tr, "matrix")
    THEN LET m == tr.matrix
         IN  Transposed(<<SubSeq(m, 1, 4), SubSeq(m, 5, 8),
                          SubSeq(m, 9, 12), SubSeq(m, 13, 16)>>)
    ELSE LET mat0 == Identity4
             mat1 == IF Has(tr, "translation")
                     THEN MatMul(Translation(tr.translation), mat0) ELSE mat0
             q == tr.rotation
             mat2 == IF Has(tr, "rotation")
                     THEN MatMul(QuaternionToMatrix(q[4], q[1], q[2], q[3]), mat1)
                     ELSE mat1
             mat3 == IF Has(tr, "scale")
                     THEN MatMul(ScaleMatrix(tr.scale), mat2) ELSE mat2
         IN  mat3

\* obj.matrix_world = parse_transform(mesh_info['transform'])
apply_transform ==
    /\ tpc = "call"
    /\ matrix_world' = parse_transform(t)
    /\ tpc' = "done"
    /\ UNCHANGED t
    /\ UNCHANGED build_vars

\* -------------------------------------------------------------------------
\* Inputs: generated documents, buffers and directories
\* -------------------------------------------------------------------------
RECURSIVE Concat(_)
Concat(ss) == IF ss = <<>> THEN <<>> ELSE Head(ss) \o Concat(Tail(ss))

\* little-endian encoding of v on width bytes
EncodeUInt(v, width) == [b \in 1..width |->
    IF b = 1 THEN v % 256
    ELSE IF b = 2 THEN (v \div 256) % 256
    ELSE IF b = 3 THEN (v \div 65536) % 256
    ELSE v \div 16777216]

CTypeWidth(ctype) == IF ctype = 5123 THEN 2 ELSE IF ctype = 5125 THEN 4 ELSE 1

PosBytes(count) == [j \in 1..(12 * count) |-> j % 5]
UVBytes(count) == [j \in 1..(8 * count) |-> j % 3]
IdxBytes(ctype, vals) ==
    Concat([k \in 1..Len(vals) |-> EncodeUInt(vals[k], CTypeWidth(ctype))])
Padding == <<0, 0, 0, 0>>

NoIndices == [present |-> FALSE]
Indices(ctype, vals) == [present |-> TRUE, ctype |-> ctype, vals |-> vals]

\* the buffer of a one-primitive document: positions, uvs, indices, padding
GeomBytes(count, idx) ==
    PosBytes(count) \o UVBytes(count)
    \o (IF idx.present THEN IdxBytes(idx.ctype, idx.vals) ELSE <<>>) \o Padding

\* a one-mesh, one-primitive document over that buffer; extra holds further
\* top-level keys and prim further keys of the primitive
GeomData(bin_uri, count, hasUV, idx, prim, extra) ==
    [buffers |-> <<[uri |-> bin_uri]>>,
     bufferViews |-> <<[buffer |-> 0],
                       [buffer |-> 0, byteOffset |-> 12 * count],
                       [buffer |-> 0, byteOffset |-> 20 * count]>>,
     accessors |-> <<[bufferView |-> 0, count |-> count],
                     [bufferView |-> 1, count |-> count],
                     [bufferView |-> 2, count |-> IF idx.present THEN Len(idx.vals) ELSE 0,
                      componentType |-> IF idx.present THEN idx.ctype ELSE 5123]>>,
     meshes |-> <<[primitives |-> <<
         prim
         @@ [attributes |-> IF hasUV THEN [POSITION |-> 0, TEXCOORD_0 |-> 1]
                            ELSE [POSITION |-> 0]]
         @@ (IF idx.present THEN [indices |-> 2] ELSE EmptyDict)>>]>>]
    @@ extra

GltfFile(data) == [valid |-> TRUE, data |-> data]
MalformedFile == [valid |-> FALSE]
BinFile(bytes) == [bytes |-> bytes]

BinSuffix == <<".", "b", "i", "n">>
BinName(gltf_name) == Stem(gltf_name) \o BinSuffix

\* the directory holding one document and, when bytes is given, its buffer
OneDocument(gltf_name, file, withBin, bytes) ==
    IF withBin THEN (gltf_name :> file) @@ (BinName(gltf_name) :> BinFile(bytes))
    ELSE (gltf_name :> file)

\* ---- geometry family: counts, uvs, index sequences, component types
RECURSIVE SeqsUpTo(_, _)
SeqsUpTo(S, n) ==
    IF n = 0 THEN {<<>>}
    ELSE LET shorter == SeqsUpTo(S, n - 1)
         IN  shorter \cup {Append(s, v) : s \in {x \in shorter : Len(x) = n - 1}, v \in S}

Counts == 0..MaxCount \cup {9}
IndexSeqs ==
    SeqsUpTo(0..MaxIndexVal, MaxIdxCount)
    \cup {<<0, 1, 2, 2, 1, 3>>, <<0, 1, 2, 0, 2, 3>>, <<0, 1, 2, 0>>, <<300, 1, 2>>}
CTypes == {5121, 5123, 5125}
IndexChoices ==
    {NoIndices} \cup {Indices(ctype, vals) : ctype \in CTypes, vals \in IndexSeqs}

ModelName == <<"a", ".", "g", "l", "t", "f">>
OneNode == [nodes |-> <<[mesh |-> 0, translation |-> <<1, 0, 0>>]>>]

GeomDirs ==
    {OneDocument(ModelName,
                 GltfFile(GeomData(BinName(ModelName), count, hasUV, idx,
                                   EmptyDict, OneNode)),
                 TRUE, GeomBytes(count, idx)) :
        count \in Counts, hasUV \in BOOLEAN, idx \in IndexChoices}

\* ---- texture family: one triangle, every shape of the material chain
Uris == {<<"sub", "tex.png">>, <<"tex.png">>}
TexPaths ==
    {Join(root, uri) : root \in {TEXTURE_FOLDER, GLTF_FOLDER}, uri \in Uris}

FullChain(uri) ==
    [materials |-> <<[pbrMetallicRoughness |-> [baseColorTexture |-> [index |-> 0]]]>>,
     textures |-> <<[source |-> 0]>>,
     images |-> <<[uri |-> uri]>>]

\* a chain with the key at path replaced by what Change gives
TexChains ==
    {[kind |-> "full", prim |-> [material |-> 0], extra |-> FullChain(uri)] : uri \in Uris}
    \cup
    {[kind |-> "no_material", prim |-> EmptyDict, extra |-> FullChain(<<"tex.png">>)],
     [kind |-> "material_past_end", prim |-> [material |-> 1],
      extra |-> FullChain(<<"tex.png">>)],
     [kind |-> "no_materials", prim |-> [material |-> 0],
      extra |-> [textures |-> <<[source |-> 0]>>, images |-> <<[uri |-> <<"tex.png">>]>>]],
     [kind |-> "no_pbr", prim |-> [material |-> 0],
      extra |-> [materials |-> <<[name |-> "m"]>>] @@ FullChain(<<"tex.png">>)],
     [kind |-> "no_baseColorTexture", prim |-> [material |-> 0],
      extra |-> [materials |-> <<[pbrMetallicRoughness |-> [metallicFactor |-> 0]]>>]
                @@ FullChain(<<"tex.png">>)],
     [kind |-> "no_index", prim |-> [material |-> 0],
      extra |-> [materials |->
                    <<[pbrMetallicRoughness |-> [baseColorTexture |-> [texCoord |-> 0]]]>>]
                @@ FullChain(<<"tex.png">>)],
     [kind |-> "texture_past_end", prim |-> [material |-> 0],
      extra |-> [materials |->
                    <<[pbrMetallicRoughness |-> [baseColorTexture |-> [index |-> 1]]]>>]
                @@ FullChain(<<"tex.png">>)],
     [kind |-> "no_textures", prim |-> [material |-> 0],
      extra |-> [materials |-> FullChain(<<"tex.png">>).materials,
                 images |-> <<[uri |-> <<"tex.png">>]>>]],
     [kind |-> "no_source", prim |-> [material |-> 0],
      extra |-> [textures |-> <<[sampler |-> 0]>>] @@ FullChain(<<"tex.png">>)],
     [kind |-> "image_past_end", prim |-> [material |-> 0],
      extra |-> [textures |-> <<[source |-> 1]>>] @@ FullChain(<<"tex.png">>)],
     [kind |-> "no_images", prim |-> [material |-> 0],
      extra |-> [materials |-> FullChain(<<"tex.png">>).materials,
                 textures |-> <<[source |-> 0]>>]],
     [kind |-> "no_uri", prim |-> [material |-> 0],
      extra |-> [images |-> <<[name |-> "img"]>>] @@ FullChain(<<"tex.png">>)]}

TexDirs ==
    {OneDocument(ModelName,
                 GltfFile(GeomData(BinName(ModelName), 3, FALSE, NoIndices,
                                   c.prim, c.extra)),
                 TRUE, GeomBytes(3, NoIndices)) : c \in TexChains}

\* ---- batch family: up to MaxFiles documents, each of one of these kinds
Without(d, k) == [x \in DOMAIN d \ {k} |-> d[x]]
Triangle(bin_uri) == GeomData(bin_uri, 3, FALSE, NoIndices, EmptyDict, EmptyDict)
Quad(bin_uri) ==
    GeomData(bin_uri, 4, TRUE, Indices(5125, <<0, 1, 2, 0, 2, 3>>), EmptyDict, OneNode)
QuadBytes == GeomBytes(4, Indices(5125, <<0, 1, 2, 0, 2, 3>>))
MissingName == <<"x", ".", "b", "i", "n">>

Kinds ==
    {"malformed", "no_buffers", "embedded_buffer", "missing_bin", "empty_bin",
     "second_buffer", "no_meshes", "empty_meshes", "no_position", "no_accessors",
     "accessor_past_end", "view_past_end", "truncated", "no_primitives",
     "two_meshes", "triangle", "quad"}
\* the kinds combined with each other in folders of several documents
BatchKinds ==
    {"malformed", "missing_bin", "no_meshes", "empty_meshes", "accessor_past_end",
     "truncated", "triangle", "quad"}

BatchData(kind, bin_uri) ==
    LET tri == Triangle(bin_uri)
        prim == tri.meshes[1].primitives[1]
    IN  CASE kind = "no_buffers" -> Without(tri, "buffers")
          [] kind = "embedded_buffer" -> [tri EXCEPT !.buffers = <<[byteLength |-> 40]>>]
          [] kind = "second_buffer" ->
                [tri EXCEPT !.buffers = <<[uri |-> MissingName], [uri |-> bin_uri]>>]
          [] kind = "no_meshes" -> Without(tri, "meshes")
          [] kind = "empty_meshes" -> [tri EXCEPT !.meshes = <<>>]
          [] kind = "no_position" ->
                [tri EXCEPT !.meshes = <<[primitives |-> <<[attributes |-> [NORMAL |-> 0]]>>]>>]
          [] kind = "no_accessors" -> Without(tri, "accessors")
          [] kind = "accessor_past_end" ->
                [tri EXCEPT !.meshes = <<[primitives |-> <<[attributes |-> [POSITION |-> 7]]>>]>>]
          [] kind = "view_past_end" ->
                [tri EXCEPT !.accessors[1] = [bufferView |-> 9, count |-> 3]]
          [] kind = "no_primitives" -> [tri EXCEPT !.meshes = <<[name |-> "m"]>>]
          [] kind = "two_meshes" ->
                [tri EXCEPT !.meshes =
                    <<[primitives |-> <<[attributes |-> [NORMAL |-> 0]], prim>>],
                      [primitives |-> <<prim>>]>>]
          [] kind = "quad" -> Quad(bin_uri)
          [] OTHER -> tri

BatchFile(kind, gltf_name) ==
    IF kind = "malformed" THEN MalformedFile
    ELSE GltfFile(BatchData(kind, BinName(gltf_name)))

BatchHasBin(kind) == kind # "missing_bin"
BatchBytes(kind) ==
    IF kind = "empty_bin" THEN <<>>
    ELSE IF kind = "truncated" THEN SubSeq(GeomBytes(3, NoIndices), 1, 20)
    ELSE IF kind = "quad" THEN QuadBytes
    ELSE GeomBytes(3, NoIndices)

GltfNames ==
    {<<"a", ".", "g", "l", "t", "f">>,
     <<"a", "-", ".", "g", "l", "t", "f">>,
     <<"a", "b", ".", "g", "l", "t", "f">>,
     <<"b", ".", "g", "l", "t", "f">>}

BatchDir(kinds) ==
    LET names == DOMAIN kinds
        bins == {BinName(n) : n \in {m \in names : BatchHasBin(kinds[m])}}
        owner(b) == CHOOSE n \in names : BinName(n) = b
    IN  [x \in names \cup bins |->
            IF x \in names THEN BatchFile(kinds[x], x)
            ELSE BinFile(BatchBytes(kinds[owner(x)]))]

BatchDirs ==
    {BatchDir(kinds) :
        kinds \in UNION {[S -> BatchKinds] :
                            S \in {T \in SUBSET GltfNames : Cardinality(T) <= MaxFiles}}}
    \cup {BatchDir(ModelName :> kind) : kind \in Kinds}

\* ---- transforms
Vec3(lo, hi) == {<<x, y, z>> : x \in lo..hi, y \in lo..hi, z \in lo..hi}
\* (x, y, z, w): identity, half turns about x and y, quarter turns about z and x
Rotations ==
    {<<0, 0, 0, 1>>, <<1, 0, 0, 0>>, <<0, 1, 0, 0>>, <<0, 0, 1, 1>>, <<1, 0, 0, 1>>}
Matrices ==
    {<<1, 0, 0, 0, 0, 1, 0, 0, 0, 0, 1, 0, 0, 0, 0, 1>>,
     <<1, 0, 0, 0, 0, 1, 0, 0, 0, 0, 1, 0, 5, 6, 7, 1>>,
     <<0, 2, 0, 0, -2, 0, 0, 0, 0, 0, 2, 0, 1, 2, 3, 1>>}

Optional(key, values) == {EmptyDict} \cup {key :> v : v \in values}
TRSInputs ==
    {tr @@ ro @@ sc :
        tr \in Optional("translation", Vec3(0, MaxCoord)),
        ro \in Optional("rotation", Rotations),
        sc \in Optional("scale", Vec3(1, MaxScale))}
TransformInputs ==
    TRSInputs
    \cup {("matrix" :> m) @@ trs :
            m \in Matrices,
            trs \in {EmptyDict, [translation |-> <<1, 1, 1>>, scale |-> <<2, 2, 2>>]}}

\* -------------------------------------------------------------------------
\* Specifications
\* -------------------------------------------------------------------------
NoCacheFile == [exists |-> FALSE]

\* build_cache run on a folder of documents
Init ==
    /\ \/ files \in GeomDirs /\ tex_exists = {}
       \/ files \in TexDirs /\ tex_exists \in SUBSET TexPaths
       \/ files \in BatchDirs /\ tex_exists = {}
    /\ pc = "start"
    /\ gltf_files = <<>>
    /\ i = 0
    /\ cache_data = <<>>
    /\ cache_file = NoCacheFile
    /\ t = EmptyDict
    /\ tpc = "idle"
    /\ matrix_world = Identity4

Next == build_cache_start \/ build_cache_loop \/ build_cache_save

Spec == Init /\ [][Next]_vars

\* parse_transform applied to a transform
InitTransform ==
    /\ t \in TransformInputs
    /\ tpc = "call"
    /\ matrix_world = Identity4
    /\ files = EmptyDict
    /\ tex_exists = {}
    /\ pc = "idle"
    /\ gltf_files = <<>>
    /\ i = 0
    /\ cache_data = <<>>
    /\ cache_file = NoCacheFile

NextTransform == apply_transform

SpecTransform == InitTransform /\ [][NextTransform]_vars

\* -------------------------------------------------------------------------
\* Properties
\* -------------------------------------------------------------------------
OnDisk == Glob(DOMAIN files)
Saved == cache_file.data
EntriesOf(cache, gltf_name) == {k \in DOMAIN cache : cache[k].name = Stem(gltf_name)}
WellFormed(gltf_name) ==
    /\ files[gltf_name].valid
    /\ files[gltf_name].data \in {Triangle(BinName(gltf_name)), Quad(BinName(gltf_name))}
    /\ BinName(gltf_name) \in DOMAIN files
    /\ files[BinName(gltf_name)].bytes \in {GeomBytes(3, NoIndices), QuadBytes}

\* C1: build_cache never raises because of a document's content; a document
\* whose preprocessing fails (or finds no buffer) has no entry in the saved
\* cache, every other document has exactly its own entry, and a folder of one
\* well-formed and one JSON-malformed document gives a cache of one entry.
C1_FailuresSkippedNeverRaised ==
    /\ pc # "raised"
    /\ pc = "done" =>
        /\ \A f \in OnDisk : \E r \in {PreprocessBody(f)} :
              IF r.exc \/ r.val = None THEN EntriesOf(Saved, f) = {}
              ELSE /\ Cardinality(EntriesOf(Saved, f)) = 1
                   /\ \A k \in EntriesOf(Saved, f) : Saved[k] = r.val
        /\ \A f, g \in OnDisk :
              (OnDisk = {f, g} /\ ~files[f].valid /\ WellFormed(g))
                  => Len(Saved) = 1 /\ Saved[1].name = Stem(g)

C1_Witness ==
    /\ pc = "done"
    /\ \E f, g \in OnDisk :
          /\ OnDisk = {f, g}
          /\ ~files[f].valid
          /\ WellFormed(g)
          /\ Len(Saved) = 1
          /\ Saved[1].name = Stem(g)
          /\ Len(Saved[1].meshes) = 1

RECURSIVE Collected(_)
Collected(paths) ==
    IF paths = <<>> THEN <<>>
    ELSE LET data == preprocess_gltf_file(Head(paths))
         IN  (IF data = None THEN <<>> ELSE <<data>>) \o Collected(Tail(paths))

\* C2: the cache is the sequence of the non-None results of
\* preprocess_gltf_file over the *.gltf files of the folder in sorted file
\* name order: every such file is listed exactly once, the list and the
\* entries are strictly ascending by source file name, and the entries
\* collected so far are the results of the files visited so far, in order.
C2_CacheInSortedFilenameOrder ==
    pc \in {"loop", "done"} =>
        /\ {gltf_files[k] : k \in DOMAIN gltf_files} = OnDisk
        /\ Len(gltf_files) = Cardinality(OnDisk)
        /\ \A j, k \in DOMAIN gltf_files :
              j < k => StrLess(gltf_files[j], gltf_files[k])
        /\ cache_data = Collected(SubSeq(gltf_files, 1, i))
        /\ \A j, k \in DOMAIN cache_data :
              j < k => StrLess(cache_data[j].name \o GltfSuffix,
                               cache_data[k].name \o GltfSuffix)
        /\ pc = "done" => i = Len(gltf_files) /\ Saved = cache_data

C2_Witness ==
    /\ pc = "done"
    /\ Len(gltf_files) = 3
    /\ preprocess_gltf_file(gltf_files[2]) = None
    /\ Len(Saved) = 2
    /\ Saved[1].name = Stem(gltf_files[1])
    /\ Saved[2].name = Stem(gltf_files[3])

\* the records of the only document of a one-document folder
Data == files[ModelName].data
Primitive == Data.meshes[1].primitives[1]
OneRecord == Len(Saved) = 1 /\ Len(Saved[1].meshes) = 1
Record == Saved[1].meshes[1]

\* C3: every mesh record of every cache entry has all its face indices below
\* len(verts), and len(uvs) = len(verts) when uvs is not empty.
C3_MeshRecordInvariant ==
    \A e \in DOMAIN cache_data : \A m \in DOMAIN cache_data[e].meshes :
        LET rec == cache_data[e].meshes[m]
        IN  /\ \A f \in DOMAIN rec.faces : \A c \in 1..3 :
                  rec.faces[f][c] < Len(rec.verts)
            /\ rec.uvs # <<>> => Len(rec.uvs) = Len(rec.verts)

\* C4: a document without a meshes array, or none of whose primitives gave a
\* mesh record, has no entry: every entry of the cache has at least one mesh
\* record.
C4_NoEntryWithoutRecords ==
    /\ \A e \in DOMAIN cache_data : Len(cache_data[e].meshes) >= 1
    /\ pc = "done" =>
          \A f \in OnDisk :
              (files[f].valid /\ ~Has(files[f].data, "meshes"))
                  => EntriesOf(Saved, f) = {}

\* the first of the candidates that exists, none when no candidate exists
FirstExisting(candidates) ==
    LET found == {k \in DOMAIN candidates : candidates[k] \in tex_exists}
    IN  IF found = {} THEN NoPath
        ELSE SomePath(candidates[CHOOSE k \in found : \A m \in found : k <= m])

Candidates(uri) ==
    <<TEXTURE_FOLDER \o uri, TEXTURE_FOLDER \o <<uri[Len(uri)]>>, GLTF_FOLDER \o uri>>

FullChainData(uri) ==
    GeomData(BinName(ModelName), 3, FALSE, NoIndices, [material |-> 0], FullChain(uri))

MissingLink(data, prim) ==
    \/ ~Has(prim, "material")
    \/ prim.material >= Len(Get(data, "materials", <<>>))
    \/ LET mat == data.materials[prim.material + 1] IN
       \/ ~Has(mat, "pbrMetallicRoughness")
       \/ ~Has(mat.pbrMetallicRoughness, "baseColorTexture")
       \/ ~Has(mat.pbrMetallicRoughness.baseColorTexture, "index")
       \/ LET tex_idx == mat.pbrMetallicRoughness.baseColorTexture.index IN
          \/ tex_idx >= Len(Get(data, "textures", <<>>))
          \/ ~Has(data.textures[tex_idx + 1], "source")
          \/ data.textures[tex_idx + 1].source >= Len(Get(data, "images", <<>>))
          \/ ~Has(data.images[data.textures[tex_idx + 1].source + 1], "uri")

\* C6: a missing link of the material chain gives texture path none and is
\* not an error: the mesh record and the cache entry are still produced.
C6_MissingLinkIsNoTexture ==
    (pc = "done" /\ files \in TexDirs /\ MissingLink(Data, Primitive))
        => OneRecord /\ Record.texture_path = NoPath

IndexAccessor == Data.accessors[Primitive.indices + 1]
\* the index values stored in the buffer of a generated document
StoredIndices ==
    DecodeUInts(files[BinName(ModelName)].bytes,
                Data.bufferViews[IndexAccessor.bufferView + 1].byteOffset,
                IndexAccessor.count,
                CTypeWidth(IndexAccessor.componentType)).val

\* C7: with an indices accessor of component type 5123 or 5125 and n indices,
\* the record is produced and its faces are the floor(n/3) consecutive
\* triples of the indices, a trailing partial triple being dropped.
C7_IndexedFacesTruncated ==
    (/\ pc = "done" /\ files \in GeomDirs
     /\ Has(Primitive, "indices")
     /\ IndexAccessor.componentType \in {5123, 5125})
        => \E idx \in {StoredIndices} :
              /\ OneRecord
              /\ Record.faces = [k \in 1..(Len(idx) \div 3) |->
                                    <<idx[3 * k - 2], idx[3 * k - 1], idx[3 * k]>>]

\* C8: without an indices accessor and with c vertices, the faces are
\* (3k, 3k+1, 3k+2) for k = 0 .. floor(c/3)-1, a trailing group of one or two
\* vertices being dropped.
C8_NonIndexedFacesTruncated ==
    (pc = "done" /\ files \in GeomDirs /\ ~Has(Primitive, "indices"))
        => /\ OneRecord
           /\ Record.faces = [k \in 1..(Data.accessors[1].count \div 3) |->
                                 <<3 * (k - 1), 3 * (k - 1) + 1, 3 * (k - 1) + 2>>]

\* C9: with an indices accessor of a component type other than 5123 and 5125
\* the primitive has a record without faces or has no record: its faces are
\* never synthesized from the vertex order.
C9_UnsupportedIndicesNoFaces ==
    (/\ pc = "done" /\ files \in GeomDirs
     /\ Has(Primitive, "indices")
     /\ IndexAccessor.componentType \notin {5123, 5125})
        => \/ Saved = <<>>
           \/ Saved[1].meshes = <<>>
           \/ OneRecord /\ Record.faces = <<>>

\* T * R * S of the parts present, a missing part being the identity
ComposedTRS(tr) ==
    LET T == IF Has(tr, "translation") THEN Translation(tr.translation) ELSE Identity4
        R == IF Has(tr, "rotation")
             THEN QuaternionToMatrix(tr.rotation[4], tr.rotation[1],
                                     tr.rotation[2], tr.rotation[3])
             ELSE Identity4
        S == IF Has(tr, "scale") THEN ScaleMatrix(tr.scale) ELSE Identity4
    IN  MatMul(T, MatMul(R, S))

\* C10: for a transform without a matrix, parse_transform returns T * R * S:
\* scale is applied to a point first, then rotation, then translation.
C10_ComposesTRS ==
    (tpc = "done" /\ ~Has(t, "matrix")) => matrix_world = ComposedTRS(t)

====
